---- MODULE Spec2Model ----
(***************************************************************************)
(* Model of the web front end of the Markdown converter                    *)
(* (webapp/converter_app.py): the /convert, /status and /clear handlers,   *)
(* the shared conversion_status dictionary guarded by conversion_lock, the *)
(* global ThreadPoolExecutor and the job function process_single_file; and *)
(* of the conversion functions convert_file_to_markdown and batch_convert  *)
(* (webapp/convert_to_markdown.py).                                        *)
(*                                                                         *)
(* Strings are sequences of one-character strings, so that strip(), the    *)
(* wildcard tests and glob matching are computed as the code computes      *)
(* them.                                                                   *)
(***************************************************************************)
EXTENDS Integers, Sequences, FiniteSets, TLC

VARIABLES
    cpu_count,          \* multiprocessing.cpu_count(), fixed at start-up
    conversion_status,  \* dict: file path -> {status, message, timestamp}
    conversion_lock,    \* threading.Lock: Free or the thread holding it
    work_queue,         \* executor._work_queue: pending work items (job ids)
    idle_semaphore,     \* executor._idle_semaphore
    threads,            \* executor._threads: one record per worker thread
    req,                \* one record per request-handling thread
    submitted,          \* number of work items created by executor.submit
    started,            \* number of times a work item was run
    now,                \* the clock read by datetime.now()
    cleared,            \* history: a clear() happened and no write followed it
    call,               \* a call of convert_file_to_markdown (command line)
    batch               \* a call of batch_convert

vars == <<cpu_count, conversion_status, conversion_lock, work_queue,
          idle_semaphore, threads, req, submitted, started, now, cleared,
          call, batch>>

-----------------------------------------------------------------------------
(* Bounds of the model.                                                    *)

\* Largest number of cores of the machine.
MaxCpu == 5

\* Number of request-handling threads of the web server.
MaxCallers == 2

\* Total number of files admitted by all /convert calls of one run.
MaxJobs == 2

\* Largest number of paths in the list given to batch_convert.
MaxBatch == 2

Callers == 1 .. MaxCallers

\* The names of the threads a pool can hold (never more than cores).
ThreadIds == 1 .. MaxCpu

\* The machine sizes the server is started on: the two largest ones (every
\* machine with at most four cores gets the same pool as one with four).
CpuCounts == {p \in 1 .. MaxCpu : p >= MaxCpu - 1}

-----------------------------------------------------------------------------
(* Strings and the file system.                                            *)

Str_a_pdf == <<"a", ".", "p", "d", "f">>
Str_m_pdf == <<"m", ".", "p", "d", "f">>
Str_d == <<"d">>
Str_d_c_pdf == <<"d", "/", "c", ".", "p", "d", "f">>
Str_d_n_txt == <<"d", "/", "n", ".", "t", "x", "t">>
Str_d_s_pdf == <<"d", "/", "s", ".", "p", "d", "f">>
Str_d_s_pdf_e_pdf ==
    <<"d", "/", "s", ".", "p", "d", "f", "/", "e", ".", "p", "d", "f">>
Str_star_pdf == <<"*", ".", "p", "d", "f">>
Str_star_docx == <<"*", ".", "d", "o", "c", "x">>
Str_star_pptx == <<"*", ".", "p", "p", "t", "x">>

\* The files and directories on disk, in the order the operating system
\* enumerates them.  d/s.pdf is a directory whose name ends in .pdf.
FSEntries ==
    << [path |-> Str_a_pdf, kind |-> "file"],
       [path |-> Str_d, kind |-> "dir"],
       [path |-> Str_d_c_pdf, kind |-> "file"],
       [path |-> Str_d_n_txt, kind |-> "file"],
       [path |-> Str_d_s_pdf, kind |-> "dir"],
       [path |-> Str_d_s_pdf_e_pdf, kind |-> "file"] >>

Reverse(s) == [i \in 1 .. Len(s) |-> s[Len(s) + 1 - i]]

\* The enumeration order of a directory is not specified.
ScanOrders == {FSEntries, Reverse(FSEntries)}

FSPaths == {FSEntries[i].path : i \in 1 .. Len(FSEntries)}

KindOf(p) ==
    IF p \in FSPaths
    THEN (CHOOSE e \in {FSEntries[i] : i \in 1 .. Len(FSEntries)} : e.path = p).kind
    ELSE "none"

\* A trailing separator names the directory itself.
DropTrailingSep(p) ==
    IF Len(p) > 1 /\ p[Len(p)] = "/" THEN SubSeq(p, 1, Len(p) - 1) ELSE p

isfile(p) == KindOf(p) = "file"

isdir(p) == KindOf(DropTrailingSep(p)) = "dir"

Contains(s, c) == \E i \in 1 .. Len(s) : s[i] = c

ContainsSub(s, t) ==
    \E i \in 1 .. (Len(s) - Len(t) + 1) : SubSeq(s, i, i + Len(t) - 1) = t

IsSpace(c) == c = " "

RECURSIVE lstrip(_)
lstrip(s) ==
    IF s # <<>> /\ IsSpace(Head(s)) THEN lstrip(Tail(s)) ELSE s

RECURSIVE rstrip(_)
rstrip(s) ==
    IF s # <<>> /\ IsSpace(s[Len(s)])
    THEN rstrip(SubSeq(s, 1, Len(s) - 1))
    ELSE s

strip(s) == rstrip(lstrip(s))

\* os.path.join of a directory and a name.
join(dir, name) ==
    IF dir = <<>> THEN name
    ELSE IF dir[Len(dir)] = "/" THEN dir \o name
    ELSE dir \o <<"/">> \o name

\* Position of the last separator of p, 0 when there is none.
LastSep(p) ==
    IF Contains(p, "/")
    THEN CHOOSE i \in 1 .. Len(p) :
            p[i] = "/" /\ \A j \in (i + 1) .. Len(p) : p[j] # "/"
    ELSE 0

dirname(p) == IF LastSep(p) = 0 THEN <<>> ELSE SubSeq(p, 1, LastSep(p) - 1)

basename(p) == SubSeq(p, LastSep(p) + 1, Len(p))

\* fnmatch of one path component against a pattern with * and ?.
RECURSIVE fnmatch(_, _)
fnmatch(name, pat) ==
    IF pat = <<>> THEN name = <<>>
    ELSE IF Head(pat) = "*"
         THEN fnmatch(name, Tail(pat))
              \/ (name # <<>> /\ fnmatch(Tail(name), pat))
    ELSE IF Head(pat) = "?"
         THEN name # <<>> /\ fnmatch(Tail(name), Tail(pat))
    ELSE name # <<>> /\ Head(name) = Head(pat)
         /\ fnmatch(Tail(name), Tail(pat))

has_magic(s) == Contains(s, "*") \/ Contains(s, "?")

ishidden(name) == name # <<>> /\ Head(name) = "."

\* os.listdir(dir): the names directly inside dir, in enumeration order.
listdir(order, dir) ==
    LET inside(e) == dirname(e.path) = DropTrailingSep(dir)
        kept == SelectSeq(order, inside)
    IN  [i \in 1 .. Len(kept) |-> basename(kept[i].path)]

RECURSIVE Flatten(_)
Flatten(ss) == IF ss = <<>> THEN <<>> ELSE Head(ss) \o Flatten(Tail(ss))

\* glob._glob1: the names in dir matching the pattern; names starting with a
\* dot are matched only by a pattern starting with a dot.
glob1(order, dir, pat) ==
    LET ok(name) == fnmatch(name, pat) /\ (ishidden(pat) \/ ~ishidden(name))
    IN  IF dir = <<>> \/ isdir(dir)
        THEN SelectSeq(listdir(order, dir), ok)
        ELSE <<>>

\* glob._rlistdir: every name below dir (files and directories), depth first.
RECURSIVE rlistdir(_, _)
rlistdir(order, dir) ==
    LET names == SelectSeq(listdir(order, dir), LAMBDA n : ~ishidden(n))
        below(n) ==
            <<n>> \o
            (IF isdir(join(dir, n))
             THEN LET sub == rlistdir(order, join(dir, n))
                  IN  [i \in 1 .. Len(sub) |-> join(n, sub[i])]
             ELSE <<>>)
    IN  Flatten([i \in 1 .. Len(names) |-> below(names[i])])

\* glob._glob2: the directory itself (as an empty name) and all below it.
glob2(order, dir) ==
    IF dir = <<>> \/ isdir(dir) THEN <<(<<>>)>> \o rlistdir(order, dir) ELSE <<>>

\* glob._glob0: a component without wildcards.
glob0(dir, name) ==
    IF name = <<>>
    THEN (IF isdir(dir) THEN <<name>> ELSE <<>>)
    ELSE (IF KindOf(join(dir, name)) # "none" THEN <<name>> ELSE <<>>)

\* glob.glob(pathname, recursive=...): the matching paths.
RECURSIVE glob(_, _, _)
glob(order, pathname, recursive) ==
    LET dir == dirname(pathname)
        base == basename(pathname)
        dirs == IF dir # <<>> /\ has_magic(dir)
                THEN glob(order, dir, recursive)
                ELSE <<dir>>
        in_dir(d) ==
            LET names == IF recursive /\ base = <<"*", "*">>
                             THEN glob2(order, d)
                         ELSE IF has_magic(base) THEN glob1(order, d, base)
                         ELSE glob0(d, base)
            IN  [i \in 1 .. Len(names) |-> join(d, names[i])]
    IN  IF ~has_magic(pathname)
        THEN (IF KindOf(DropTrailingSep(pathname)) # "none"
              THEN <<pathname>> ELSE <<>>)
        ELSE Flatten([i \in 1 .. Len(dirs) |-> in_dir(dirs[i])])

-----------------------------------------------------------------------------
(* Path resolution of /convert.                                            *)

SupportedPatterns == <<Str_star_pdf, Str_star_docx, Str_star_pptx>>

\* The files one entry of the request contributes to files_to_convert.
ResolveEntry(order, raw) ==
    LET path == strip(raw)
    IN  IF path = <<>> THEN <<>>
        ELSE IF Contains(path, "*") \/ Contains(path, "?")
             THEN LET matched_files ==
                          IF ContainsSub(path, <<"*", "*">>)
                          THEN glob(order, path, TRUE)
                          ELSE glob(order, path, FALSE)
                  IN  SelectSeq(matched_files, isfile)
        ELSE IF isfile(path) THEN <<path>>
        ELSE IF isdir(path)
             THEN Flatten([k \in 1 .. Len(SupportedPatterns) |->
                              glob(order, join(path, SupportedPatterns[k]), FALSE)])
        ELSE <<>>

\* files_to_convert after the loop over the request's paths.
RECURSIVE Resolve(_, _)
Resolve(order, paths) ==
    IF paths = <<>> THEN <<>>
    ELSE ResolveEntry(order, Head(paths)) \o Resolve(order, Tail(paths))

\* The bodies of the /convert requests the clients send.
RawRequests ==
    { <<Str_a_pdf, Str_a_pdf, Str_m_pdf>>,
      <<(<<" ">> \o Str_d \o <<"/">> \o Str_star_pdf \o <<" ">>)>>,
      <<Str_star_pdf>>,
      <<(<<" ">>), Str_m_pdf>>,
      <<>> }

\* The requests of the runs checked for progress: a batch naming one file
\* twice, and a batch of one file.
LiveRequests ==
    { <<Str_a_pdf, Str_a_pdf, Str_m_pdf>>,
      <<(<<" ">> \o Str_d \o <<"/">> \o Str_star_pdf \o <<" ">>)>> }

-----------------------------------------------------------------------------
(* The status dictionary, the lock and the thread pool.                    *)

Free == <<"free", 0>>
ReqThread(t) == <<"req", t>>
WorkerThread(w) == <<"worker", w>>

EmptyDict == [p \in {} |-> [status |-> "", message |-> "", timestamp |-> 0]]

\* dict(conversion_status): a new dictionary with the same items.
dict(d) == [p \in DOMAIN d |-> d[p]]

\* conversion_status[file_path] = {...}
SetItem(d, p, rec) ==
    [q \in (DOMAIN d) \cup {p} |-> IF q = p THEN rec ELSE d[q]]

StatusRecord(status, message, timestamp) ==
    [status |-> status, message |-> message, timestamp |-> timestamp]

\* Twice MAX_WORKERS = max(1, cpu_count()/2 - 1): the division is a true
\* division, so the value is a multiple of one half.
MAX_WORKERS_times2 == IF cpu_count - 2 > 2 THEN cpu_count - 2 ELSE 2

\* A request thread with no request, and its client with no answer kept.
IdleReq == [pc |-> "idle", paths |-> <<>>, files |-> <<>>, i |-> 0,
            touched |-> {}, wiped |-> {}, response |-> EmptyDict]

NoItem == [id |-> 0, path |-> <<>>, cleared |-> FALSE]

\* A worker thread waiting for a work item; result is what the conversion of
\* the work item it has just finished did ("" when it has finished none).
IdleThread == [pc |-> "idle", item |-> NoItem, upserts |-> 0, result |-> ""]

InConvert(t) == req[t].pc \in {"loop", "queued_cs", "submit"}

\* Files of the running /convert calls not yet handed to the pool.
RECURSIVE Remaining(_)
Remaining(ts) ==
    IF ts = {} THEN 0
    ELSE LET t == CHOOSE x \in ts : TRUE
             own == IF InConvert(t)
                    THEN Len(req[t].files) - (req[t].i - 1) ELSE 0
         IN  own + Remaining(ts \ {t})

\* The paths a running /convert call has already written as Queued.
Written(t) ==
    IF ~InConvert(t) THEN {}
    ELSE {req[t].files[k] :
             k \in 1 .. (IF req[t].pc = "submit" THEN req[t].i ELSE req[t].i - 1)}

\* History kept for each running /convert call: which of the paths it has
\* written were written again by a worker since (touched), and which were
\* removed by clear() since (wiped).
Touch(ps) ==
    [t \in Callers |->
        [req[t] EXCEPT !.touched = @ \cup (ps \cap Written(t))]]

Wipe ==
    [t \in Callers |-> [req[t] EXCEPT !.wiped = @ \cup Written(t)]]

\* The result a function call has not produced yet.
NoResult == [success |-> FALSE, message |-> ""]

\* No call of convert_file_to_markdown is in progress.  attempts counts the
\* calls of shutil.copy2, contended those that failed because the file was
\* in use, slept lists the delays waited (in halves of a second), fallback
\* tells how the raw copy ended, temp whether the temporary file exists,
\* remove_tried whether os.remove was called for it.
NoCall == [pc |-> "idle", input_file |-> <<>>, attempt |-> 0,
           retry_delay |-> 0, attempts |-> 0, contended |-> 0,
           slept |-> <<>>, fallback |-> "", temp |-> FALSE,
           remove_tried |-> FALSE, result |-> NoResult]

\* No call of batch_convert is in progress.
NoBatch == [pc |-> "idle", file_paths |-> <<>>, max_workers |-> 0,
            pending |-> {}, results |-> <<>>]

\* The threads that are inside convert_file_to_markdown.
Converting == {w \in DOMAIN threads : threads[w].pc = "converting"}

Init ==
    /\ cpu_count \in CpuCounts
    /\ conversion_status = EmptyDict
    /\ conversion_lock = Free
    /\ work_queue = <<>>
    /\ idle_semaphore = 0
    /\ threads = <<>>
    /\ req = [t \in Callers |-> IdleReq]
    /\ submitted = 0
    /\ started = 0
    /\ now = 0
    /\ cleared = FALSE
    /\ call = NoCall
    /\ batch = NoBatch

-----------------------------------------------------------------------------
(* /convert                                                                *)

\* request.json, the resolution loop: files_to_convert is built.
convert_resolve_of(t, requests) ==
    /\ req[t].pc = "idle"
    /\ \E paths \in requests, order \in ScanOrders :
          LET files_to_convert == Resolve(order, paths)
          IN  /\ submitted + Remaining(Callers) + Len(files_to_convert) <= MaxJobs
              /\ req' = [req EXCEPT ![t] =
                            [IdleReq EXCEPT !.pc = "loop", !.paths = paths,
                                            !.files = files_to_convert,
                                            !.i = 1]]
    /\ UNCHANGED <<call, batch, cpu_count, conversion_status, conversion_lock, work_queue,
                   idle_semaphore, threads, submitted, started, now, cleared>>

convert_resolve(t) == convert_resolve_of(t, RawRequests)

\* The requests that are not of the expected form: a request without a JSON
\* body, and a body whose list of paths holds the strings of before followed
\* by a number.
MalformedRequests ==
    { [kind |-> "no_body", before |-> <<>>],
      [kind |-> "bad_entry", before |-> <<Str_a_pdf>>] }

\* A variant of convert_malformed that writes the Queued record of a file as
\* soon as the file is resolved, before the next entry is looked at.
convert_malformed_partial(t) ==
    /\ req[t].pc = "idle"
    /\ \E body \in MalformedRequests, order \in ScanOrders :
          LET files_to_convert == Resolve(order, body.before)
          IN  /\ req' = [req EXCEPT ![t] =
                            [IdleReq EXCEPT !.pc = "error",
                                            !.paths = body.before]]
              /\ IF files_to_convert = <<>>
                 THEN UNCHANGED <<conversion_status, now, cleared>>
                 ELSE /\ now' = now + 1
                      /\ cleared' = FALSE
                      /\ conversion_status' =
                             SetItem(conversion_status, files_to_convert[1],
                                     StatusRecord("Queued",
                                                  "Waiting to be processed",
                                                  now'))
    /\ UNCHANGED <<call, batch, cpu_count, conversion_lock, work_queue,
                   idle_semaphore, threads, submitted, started>>

\* /convert for a malformed request: data.get fails when there is no body,
\* path.strip() fails for the entry that is not a string, after the entries
\* before it were resolved; the exception leaves the resolution loop, the
\* list files_to_convert is dropped and the except clause answers.
convert_malformed(t) ==
    /\ req[t].pc = "idle"
    /\ \E body \in MalformedRequests :
          req' = [req EXCEPT ![t] =
                     [IdleReq EXCEPT !.pc = "error", !.paths = body.before]]
    /\ UNCHANGED <<call, batch, cpu_count, conversion_status, conversion_lock,
                   work_queue, idle_semaphore, threads, submitted, started,
                   now, cleared>>

\* The answer of the except clause of /convert.
convert_error_response == [error |-> "...", code |-> 500]

\* return jsonify({'error': str(e)}), 500
convert_error_return(t) ==
    /\ req[t].pc = "error"
    /\ convert_error_response.code = 500
    /\ req' = [req EXCEPT ![t] = IdleReq]
    /\ UNCHANGED <<call, batch, cpu_count, conversion_status, conversion_lock,
                   work_queue, idle_semaphore, threads, submitted, started,
                   now, cleared>>

\* for file_path in files_to_convert: with conversion_lock:
convert_lock(t) ==
    /\ req[t].pc = "loop"
    /\ req[t].i <= Len(req[t].files)
    /\ conversion_lock = Free
    /\ conversion_lock' = ReqThread(t)
    /\ req' = [req EXCEPT ![t].pc = "queued_cs"]
    /\ UNCHANGED <<call, batch, cpu_count, conversion_status, work_queue, idle_semaphore,
                   threads, submitted, started, now, cleared>>

\* A variant of convert_queued that keeps the record a path already has.
convert_queued_keep(t) ==
    /\ req[t].pc = "queued_cs"
    /\ conversion_lock = ReqThread(t)
    /\ now' = now + 1
    /\ conversion_status' =
           IF req[t].files[req[t].i] \in DOMAIN conversion_status
           THEN conversion_status
           ELSE SetItem(conversion_status, req[t].files[req[t].i],
                        StatusRecord("Queued", "Waiting to be processed", now'))
    /\ conversion_lock' = Free
    /\ cleared' = FALSE
    /\ req' = [req EXCEPT ![t].pc = "submit",
                          ![t].touched = @ \ {req[t].files[req[t].i]},
                          ![t].wiped = @ \ {req[t].files[req[t].i]}]
    /\ UNCHANGED <<call, batch, cpu_count, work_queue, idle_semaphore, threads, submitted,
                   started>>

\* conversion_status[file_path] = {'status': 'Queued', ...}; lock released.
convert_queued(t) ==
    /\ req[t].pc = "queued_cs"
    /\ conversion_lock = ReqThread(t)
    /\ now' = now + 1
    /\ conversion_status' =
           SetItem(conversion_status, req[t].files[req[t].i],
                   StatusRecord("Queued", "Waiting to be processed", now'))
    /\ conversion_lock' = Free
    /\ cleared' = FALSE
    /\ req' = [req EXCEPT ![t].pc = "submit",
                          ![t].touched = @ \ {req[t].files[req[t].i]},
                          ![t].wiped = @ \ {req[t].files[req[t].i]}]
    /\ UNCHANGED <<call, batch, cpu_count, work_queue, idle_semaphore, threads, submitted,
                   started>>

\* ThreadPoolExecutor._adjust_thread_count: an idle thread is reused,
\* otherwise a thread is started while there are fewer than max_workers.
adjust_thread_count ==
    IF idle_semaphore > 0
    THEN /\ idle_semaphore' = idle_semaphore - 1
         /\ threads' = threads
    ELSE /\ idle_semaphore' = idle_semaphore
         /\ threads' = IF 2 * Len(threads) < MAX_WORKERS_times2
                       THEN Append(threads, IdleThread)
                       ELSE threads

\* A variant of executor_submit on a queue that holds one item at most.
executor_submit_bounded(file_path, wiped) ==
    /\ work_queue = <<>>
    /\ submitted' = submitted + 1
    /\ work_queue' = Append(work_queue, [id |-> submitted + 1,
                                         path |-> file_path,
                                         cleared |-> wiped])
    /\ adjust_thread_count

\* executor.submit(process_single_file, file_path): the work item is put on
\* the unbounded queue; the call never waits for a worker.  (wiped is
\* history: a clear() ran since the Queued record of the file was written.)
executor_submit(file_path, wiped) ==
    /\ submitted' = submitted + 1
    /\ work_queue' = Append(work_queue, [id |-> submitted + 1,
                                         path |-> file_path,
                                         cleared |-> wiped])
    /\ adjust_thread_count

\* A variant of convert_submit that also hands a file over before its
\* Queued record is written.
convert_submit_early(t) ==
    /\ \/ req[t].pc = "submit"
       \/ req[t].pc = "loop" /\ req[t].i <= Len(req[t].files)
    /\ executor_submit(req[t].files[req[t].i],
                       req[t].files[req[t].i] \in req[t].wiped)
    /\ req' = [req EXCEPT ![t].pc = "loop", ![t].i = req[t].i + 1]
    /\ UNCHANGED <<call, batch, cpu_count, conversion_status, conversion_lock, started, now,
                   cleared>>

convert_submit(t) ==
    /\ req[t].pc = "submit"
    /\ executor_submit(req[t].files[req[t].i],
                       req[t].files[req[t].i] \in req[t].wiped)
    /\ req' = [req EXCEPT ![t].pc = "loop", ![t].i = req[t].i + 1]
    /\ UNCHANGED <<call, batch, cpu_count, conversion_status, conversion_lock, started, now,
                   cleared>>

\* A variant of convert_response that reports a batch without files as an
\* error.
convert_response_strict(t) ==
    [success |-> req[t].files # <<>>, queued |-> Len(req[t].files),
     files |-> req[t].files]

\* The JSON answer of /convert.
convert_response(t) ==
    [success |-> TRUE, queued |-> Len(req[t].files), files |-> req[t].files]

\* return jsonify({'success': True, 'queued': ..., 'files': ...})
convert_return(t) ==
    /\ req[t].pc = "loop"
    /\ req[t].i > Len(req[t].files)
    /\ req' = [req EXCEPT ![t] = IdleReq]
    /\ UNCHANGED <<call, batch, cpu_count, conversion_status, conversion_lock, work_queue,
                   idle_semaphore, threads, submitted, started, now, cleared>>

-----------------------------------------------------------------------------
(* /status and /clear                                                      *)

status_lock(t) ==
    /\ req[t].pc = "idle"
    /\ conversion_lock = Free
    /\ conversion_lock' = ReqThread(t)
    /\ req' = [req EXCEPT ![t].pc = "status_cs"]
    /\ UNCHANGED <<call, batch, cpu_count, conversion_status, work_queue, idle_semaphore,
                   threads, submitted, started, now, cleared>>

\* The JSON answer of /status: jsonify(dict(conversion_status)).
status_response == dict(conversion_status)

\* return jsonify(dict(conversion_status)): the answer is serialised while
\* the lock is held.  With keeps, the answer the page has received is
\* followed further (it is what updateStatusDisplay works on); without, the
\* model stops following the answer when it leaves the server.
status_return_to(t, keeps) ==
    /\ req[t].pc = "status_cs"
    /\ conversion_lock = ReqThread(t)
    /\ req' = [req EXCEPT ![t] =
                  IF keeps
                  THEN [IdleReq EXCEPT !.pc = "polled",
                                       !.response = status_response]
                  ELSE IdleReq]
    /\ conversion_lock' = Free
    /\ UNCHANGED <<call, batch, cpu_count, conversion_status, work_queue, idle_semaphore,
                   threads, submitted, started, now, cleared>>

status_return(t) == status_return_to(t, FALSE)

status_return_polled(t) == status_return_to(t, TRUE)

-----------------------------------------------------------------------------
(* The page: refreshStatus, updateStatusDisplay, updateStats               *)

\* A variant of toLowerCase that leaves the string as it is.
toLowerCase_none(str) == str

\* String.prototype.toLowerCase on the status names.
toLowerCase(str) ==
    CASE str = "Queued" -> "queued"
      [] str = "Processing" -> "processing"
      [] str = "Completed" -> "completed"
      [] str = "Error" -> "error"
      [] OTHER -> str

\* Object.entries(statusData).sort(...): the entries, newest first.
RECURSIVE sortedEntries(_)
sortedEntries(statusData) ==
    IF DOMAIN statusData = {} THEN <<>>
    ELSE LET file == CHOOSE f \in DOMAIN statusData :
                        \A g \in DOMAIN statusData :
                            statusData[g].timestamp <= statusData[f].timestamp
             rest == [g \in (DOMAIN statusData) \ {file} |-> statusData[g]]
         IN  <<(<<file, statusData[file]>>)>> \o sortedEntries(rest)

\* stats[statusClass] = (stats[statusClass] || 0) + 1
CountOne(stats, statusClass) ==
    [k \in (DOMAIN stats) \cup {statusClass} |->
        IF k = statusClass
        THEN (IF k \in DOMAIN stats THEN stats[k] ELSE 0) + 1
        ELSE stats[k]]

\* The loop of updateStatusDisplay over the sorted entries.
RECURSIVE CountEntries(_, _)
CountEntries(entries, stats) ==
    IF entries = <<>> THEN stats
    ELSE CountEntries(Tail(entries),
                      CountOne(stats, toLowerCase(Head(entries)[2].status)))

StatKeys == {"queued", "processing", "completed", "error"}

\* updateStats(stats): the four numbers written to the page.
updateStats(stats) ==
    [k \in StatKeys |-> IF k \in DOMAIN stats THEN stats[k] ELSE 0]

\* The numbers updateStatusDisplay(statusData) puts on the page.
DisplayedStats(statusData) ==
    IF DOMAIN statusData = {}
    THEN updateStats([k \in StatKeys |-> 0])
    ELSE updateStats(CountEntries(sortedEntries(statusData),
                                  [k \in StatKeys |-> 0]))

\* .then(data => updateStatusDisplay(data)): the numbers are written to the
\* page, which is then ready for its next request.
updateStatusDisplay(t) ==
    /\ req[t].pc = "polled"
    /\ DisplayedStats(req[t].response) \in [StatKeys -> Nat]
    /\ req' = [req EXCEPT ![t] = IdleReq]
    /\ UNCHANGED <<call, batch, cpu_count, conversion_status, conversion_lock, work_queue,
                   idle_semaphore, threads, submitted, started, now, cleared>>

clear_lock(t) ==
    /\ req[t].pc = "idle"
    /\ conversion_lock = Free
    /\ conversion_lock' = ReqThread(t)
    /\ req' = [req EXCEPT ![t].pc = "clear_cs"]
    /\ UNCHANGED <<call, batch, cpu_count, conversion_status, work_queue, idle_semaphore,
                   threads, submitted, started, now, cleared>>

\* History: the work items pending or running at a clear() are marked: a
\* clear() ran after the Queued record of the job was written.
MarkCleared(item) ==
    IF item.id = 0 THEN item ELSE [item EXCEPT !.cleared = TRUE]

\* A variant of clear_assign without the global declaration: the assignment
\* binds a local name and the dictionary stays as it is.
clear_assign_local(t) ==
    /\ req[t].pc = "clear_cs"
    /\ conversion_lock = ReqThread(t)
    /\ conversion_status' = conversion_status
    /\ conversion_lock' = Free
    /\ cleared' = TRUE
    /\ work_queue' = [k \in 1 .. Len(work_queue) |-> MarkCleared(work_queue[k])]
    /\ threads' = [w \in 1 .. Len(threads) |->
                      [threads[w] EXCEPT !.item = MarkCleared(@)]]
    /\ req' = [Wipe EXCEPT ![t] = IdleReq]
    /\ UNCHANGED <<call, batch, cpu_count, idle_semaphore, submitted, started, now>>

\* A variant of clear_assign that also drops the pending work items.
clear_assign_cancel(t) ==
    /\ req[t].pc = "clear_cs"
    /\ conversion_lock = ReqThread(t)
    /\ conversion_status' = EmptyDict
    /\ conversion_lock' = Free
    /\ cleared' = TRUE
    /\ work_queue' = <<>>
    /\ threads' = [w \in 1 .. Len(threads) |->
                      [threads[w] EXCEPT !.item = MarkCleared(@)]]
    /\ req' = [Wipe EXCEPT ![t] = IdleReq]
    /\ UNCHANGED <<call, batch, cpu_count, idle_semaphore, submitted, started, now>>

\* conversion_status = {}; lock released; return jsonify({'success': True})
clear_assign(t) ==
    /\ req[t].pc = "clear_cs"
    /\ conversion_lock = ReqThread(t)
    /\ conversion_status' = EmptyDict
    /\ conversion_lock' = Free
    /\ cleared' = TRUE
    /\ work_queue' = [k \in 1 .. Len(work_queue) |-> MarkCleared(work_queue[k])]
    /\ threads' = [w \in 1 .. Len(threads) |->
                      [threads[w] EXCEPT !.item = MarkCleared(@)]]
    /\ req' = [Wipe EXCEPT ![t] = IdleReq]
    /\ UNCHANGED <<call, batch, cpu_count, idle_semaphore, submitted, started, now>>

-----------------------------------------------------------------------------
(* The worker threads: process_single_file                                 *)

\* A variant of worker_get that runs the first item and leaves it queued.
worker_get_peek(w) ==
    /\ w \in DOMAIN threads
    /\ threads[w].pc = "idle"
    /\ work_queue # <<>>
    /\ threads' = [threads EXCEPT ![w].pc = "start", ![w].item = Head(work_queue)]
    /\ work_queue' = work_queue
    /\ started' = started + 1
    /\ UNCHANGED <<call, batch, cpu_count, conversion_status, conversion_lock,
                   idle_semaphore, req, submitted, now, cleared>>

\* A variant of worker_get that takes the item queued last.
worker_get_lifo(w) ==
    /\ w \in DOMAIN threads
    /\ threads[w].pc = "idle"
    /\ work_queue # <<>>
    /\ threads' = [threads EXCEPT ![w].pc = "start",
                                  ![w].item = work_queue[Len(work_queue)]]
    /\ work_queue' = SubSeq(work_queue, 1, Len(work_queue) - 1)
    /\ started' = started + 1
    /\ UNCHANGED <<call, batch, cpu_count, conversion_status, conversion_lock,
                   idle_semaphore, req, submitted, now, cleared>>

\* work_item = work_queue.get(block=True); work_item.run()
worker_get(w) ==
    /\ w \in DOMAIN threads
    /\ threads[w].pc = "idle"
    /\ work_queue # <<>>
    /\ threads' = [threads EXCEPT ![w].pc = "start", ![w].item = Head(work_queue)]
    /\ work_queue' = Tail(work_queue)
    /\ started' = started + 1
    /\ UNCHANGED <<call, batch, cpu_count, conversion_status, conversion_lock,
                   idle_semaphore, req, submitted, now, cleared>>

\* with conversion_lock: (first block of process_single_file)
process_lock(w) ==
    /\ w \in DOMAIN threads
    /\ threads[w].pc = "start"
    /\ conversion_lock = Free
    /\ conversion_lock' = WorkerThread(w)
    /\ threads' = [threads EXCEPT ![w].pc = "processing_cs"]
    /\ UNCHANGED <<call, batch, cpu_count, conversion_status, work_queue, idle_semaphore,
                   req, submitted, started, now, cleared>>

\* A variant of process_processing that changes the state of the record the
\* path already has and leaves its message and timestamp.
process_processing_inplace(w) ==
    /\ w \in DOMAIN threads
    /\ threads[w].pc = "processing_cs"
    /\ conversion_lock = WorkerThread(w)
    /\ now' = now + 1
    /\ conversion_status' =
           IF threads[w].item.path \in DOMAIN conversion_status
           THEN [conversion_status EXCEPT
                    ![threads[w].item.path].status = "Processing"]
           ELSE SetItem(conversion_status, threads[w].item.path,
                        StatusRecord("Processing", "Converting to Markdown...",
                                     now'))
    /\ conversion_lock' = Free
    /\ cleared' = FALSE
    /\ threads' = [threads EXCEPT ![w].pc = "converting"]
    /\ req' = Touch({threads[w].item.path})
    /\ UNCHANGED <<call, batch, cpu_count, work_queue, idle_semaphore, submitted, started>>

\* A variant of process_processing that keeps the lock for the time of the
\* conversion.
process_processing_hold(w) ==
    /\ w \in DOMAIN threads
    /\ threads[w].pc = "processing_cs"
    /\ conversion_lock = WorkerThread(w)
    /\ now' = now + 1
    /\ conversion_status' =
           SetItem(conversion_status, threads[w].item.path,
                   StatusRecord("Processing", "Converting to Markdown...", now'))
    /\ conversion_lock' = conversion_lock
    /\ cleared' = FALSE
    /\ threads' = [threads EXCEPT ![w].pc = "converting"]
    /\ req' = Touch({threads[w].item.path})
    /\ UNCHANGED <<call, batch, cpu_count, work_queue, idle_semaphore, submitted, started>>

\* conversion_status[file_path] = {'status': 'Processing', ...}
process_processing(w) ==
    /\ w \in DOMAIN threads
    /\ threads[w].pc = "processing_cs"
    /\ conversion_lock = WorkerThread(w)
    /\ now' = now + 1
    /\ conversion_status' =
           SetItem(conversion_status, threads[w].item.path,
                   StatusRecord("Processing", "Converting to Markdown...", now'))
    /\ conversion_lock' = Free
    /\ cleared' = FALSE
    /\ threads' = [threads EXCEPT ![w].pc = "converting"]
    /\ req' = Touch({threads[w].item.path})
    /\ UNCHANGED <<call, batch, cpu_count, work_queue, idle_semaphore, submitted, started>>

\* What convert_file_to_markdown(file_path) does: it returns (True, message),
\* returns (False, message), or raises.
ConvertOutcomes == {"success", "failure", "raise"}

\* success, message = convert_file_to_markdown(file_path): the call ends.
process_convert(w) ==
    /\ w \in DOMAIN threads
    /\ threads[w].pc = "converting"
    /\ threads' = [threads EXCEPT ![w].pc = "converted"]
    /\ UNCHANGED <<call, batch, cpu_count, conversion_status, conversion_lock, work_queue,
                   idle_semaphore, req, submitted, started, now, cleared>>

\* with conversion_lock: (second block, or the one of the except clause)
process_result_lock(w) ==
    /\ w \in DOMAIN threads
    /\ threads[w].pc = "converted"
    /\ conversion_lock = Free
    /\ conversion_lock' = WorkerThread(w)
    /\ threads' = [threads EXCEPT ![w].pc = "result_cs"]
    /\ UNCHANGED <<call, batch, cpu_count, conversion_status, work_queue, idle_semaphore,
                   req, submitted, started, now, cleared>>

\* The record written for the outcome of the conversion.
ResultRecord(result, timestamp) ==
    IF result = "success"
    THEN StatusRecord("Completed", "Successfully converted to: ...", timestamp)
    ELSE IF result = "failure"
    THEN StatusRecord("Error", "conversion failed", timestamp)
    ELSE StatusRecord("Error", "Error: ...", timestamp)

\* A variant of process_result without the except clause: when the
\* conversion raises, no record is written.
process_result_uncaught(w) ==
    /\ w \in DOMAIN threads
    /\ threads[w].pc = "result_cs"
    /\ conversion_lock = WorkerThread(w)
    /\ now' = now + 1
    /\ \E outcome \in ConvertOutcomes :
          IF outcome = "raise"
          THEN /\ conversion_status' = conversion_status
               /\ threads' = [threads EXCEPT ![w].pc = "done",
                                             ![w].result = outcome]
          ELSE /\ conversion_status' =
                      SetItem(conversion_status, threads[w].item.path,
                              ResultRecord(outcome, now'))
               /\ threads' = [threads EXCEPT ![w].pc = "done",
                                             ![w].upserts = @ + 1,
                                             ![w].result = outcome]
    /\ conversion_lock' = Free
    /\ cleared' = FALSE
    /\ req' = Touch({threads[w].item.path})
    /\ UNCHANGED <<call, batch, cpu_count, work_queue, idle_semaphore, submitted, started>>

\* A variant of process_result in which an exception of the conversion ends
\* the worker thread: no record is written and the thread takes no further
\* work item.
process_result_crash(w) ==
    /\ w \in DOMAIN threads
    /\ threads[w].pc = "result_cs"
    /\ conversion_lock = WorkerThread(w)
    /\ now' = now + 1
    /\ \E outcome \in ConvertOutcomes :
          IF outcome = "raise"
          THEN /\ conversion_status' = conversion_status
               /\ threads' = [threads EXCEPT ![w].pc = "dead",
                                             ![w].result = outcome]
          ELSE /\ conversion_status' =
                      SetItem(conversion_status, threads[w].item.path,
                              ResultRecord(outcome, now'))
               /\ threads' = [threads EXCEPT ![w].pc = "done",
                                             ![w].upserts = @ + 1,
                                             ![w].result = outcome]
    /\ conversion_lock' = Free
    /\ cleared' = FALSE
    /\ req' = Touch({threads[w].item.path})
    /\ UNCHANGED <<call, batch, cpu_count, work_queue, idle_semaphore, submitted, started>>

\* conversion_status[file_path] = {'status': 'Completed' | 'Error', ...}
\* for the outcome of the call, which nothing has observed before this write.
process_result(w) ==
    /\ w \in DOMAIN threads
    /\ threads[w].pc = "result_cs"
    /\ conversion_lock = WorkerThread(w)
    /\ now' = now + 1
    /\ \E outcome \in ConvertOutcomes :
          /\ conversion_status' =
                 SetItem(conversion_status, threads[w].item.path,
                         ResultRecord(outcome, now'))
          /\ threads' = [threads EXCEPT ![w].pc = "done",
                                        ![w].upserts = @ + 1,
                                        ![w].result = outcome]
    /\ conversion_lock' = Free
    /\ cleared' = FALSE
    /\ req' = Touch({threads[w].item.path})
    /\ UNCHANGED <<call, batch, cpu_count, work_queue, idle_semaphore, submitted, started>>

\* The work item is finished: executor._idle_semaphore.release(), and the
\* thread waits for the next item.
worker_idle(w) ==
    /\ w \in DOMAIN threads
    /\ threads[w].pc = "done"
    /\ idle_semaphore' = idle_semaphore + 1
    /\ threads' = [threads EXCEPT ![w] = IdleThread]
    /\ UNCHANGED <<call, batch, cpu_count, conversion_status, conversion_lock, work_queue,
                   req, submitted, started, now, cleared>>

-----------------------------------------------------------------------------
(* convert_to_markdown.py: convert_file_to_markdown                        *)

\* The variables of the web application.
webapp_vars ==
    <<cpu_count, conversion_status, conversion_lock, work_queue,
      idle_semaphore, threads, req, submitted, started, now, cleared>>

\* Number of copy attempts.
max_retries == 3

\* retry_delay = 0.5, counted in halves of a second.
initial_retry_delay == 1

\* The input files of the calls: a file, a path that does not exist, and a
\* directory.
CallInputs == {Str_a_pdf, Str_m_pdf, Str_d_s_pdf}

\* What shutil.copy2 can do for the input: it copies, it fails with an error
\* whose text tells that the file is in use or that permission is denied, or
\* it fails with another error.  A directory cannot be copied.
CopyOutcomes(input_file) ==
    IF isfile(input_file)
    THEN {"ok", "contention", "other"}
    ELSE {"contention", "other"}

Failure(message) == [success |-> FALSE, message |-> message]

\* input_path.exists(); tempfile.mkstemp(): the call returns at once for a
\* missing file; mkstemp, which is outside the try statement, creates the
\* temporary file or raises.
call_begin ==
    /\ call.pc = "idle"
    /\ \E input_file \in CallInputs :
          IF KindOf(input_file) = "none"
          THEN call' = [NoCall EXCEPT
                           !.pc = "returned", !.input_file = input_file,
                           !.result = Failure("File does not exist: ...")]
          ELSE \/ call' = [NoCall EXCEPT
                              !.pc = "copy", !.input_file = input_file,
                              !.attempt = 0,
                              !.retry_delay = initial_retry_delay,
                              !.temp = TRUE]
               \/ call' = [NoCall EXCEPT
                              !.pc = "raised", !.input_file = input_file]
    /\ UNCHANGED <<webapp_vars, batch>>

\* A variant of call_copy without the outer except and finally clauses: a
\* copy error that is re-raised leaves the function.
call_copy_unhandled ==
    /\ call.pc = "copy"
    /\ \E outcome \in CopyOutcomes(call.input_file) :
          IF outcome = "ok"
          THEN call' = [call EXCEPT !.pc = "convert", !.attempts = @ + 1]
          ELSE IF outcome = "contention"
          THEN call' = [call EXCEPT
                           !.pc = IF call.attempt < max_retries - 1
                                  THEN "sleep" ELSE "fallback",
                           !.attempts = @ + 1,
                           !.contended = @ + 1]
          ELSE call' = [call EXCEPT !.pc = "raised", !.attempts = @ + 1]
    /\ UNCHANGED <<webapp_vars, batch>>

\* shutil.copy2(resolved_input, temp_file) in the loop over the attempts.
call_copy ==
    /\ call.pc = "copy"
    /\ \E outcome \in CopyOutcomes(call.input_file) :
          IF outcome = "ok"
          THEN call' = [call EXCEPT !.pc = "convert", !.attempts = @ + 1]
          ELSE IF outcome = "contention"
          THEN call' = [call EXCEPT
                           !.pc = IF call.attempt < max_retries - 1
                                  THEN "sleep" ELSE "fallback",
                           !.attempts = @ + 1,
                           !.contended = @ + 1]
          ELSE call' = [call EXCEPT
                           !.pc = "finally", !.attempts = @ + 1,
                           !.result = Failure("Error during conversion: ...")]
    /\ UNCHANGED <<webapp_vars, batch>>

\* A variant of call_sleep that does not double the delay.
call_sleep_constant ==
    /\ call.pc = "sleep"
    /\ call' = [call EXCEPT !.pc = "copy",
                            !.slept = Append(@, call.retry_delay),
                            !.attempt = @ + 1]
    /\ UNCHANGED <<webapp_vars, batch>>

\* time.sleep(retry_delay); retry_delay *= 2; continue
call_sleep ==
    /\ call.pc = "sleep"
    /\ call' = [call EXCEPT !.pc = "copy",
                            !.slept = Append(@, call.retry_delay),
                            !.retry_delay = 2 * @,
                            !.attempt = @ + 1]
    /\ UNCHANGED <<webapp_vars, batch>>

\* The raw copy after the last attempt: open, read, write.
call_fallback ==
    /\ call.pc = "fallback"
    /\ \/ /\ isfile(call.input_file)
          /\ call' = [call EXCEPT !.pc = "convert", !.fallback = "ok"]
       \/ call' = [call EXCEPT
                      !.pc = "finally", !.fallback = "failed",
                      !.result =
                          Failure("File is in use and cannot be accessed: ...")]
    /\ UNCHANGED <<webapp_vars, batch>>

\* MarkItDown().convert(temp_file)
call_markitdown ==
    /\ call.pc = "convert"
    /\ \/ call' = [call EXCEPT !.pc = "write"]
       \/ call' = [call EXCEPT
                      !.pc = "finally",
                      !.result = Failure("markitdown conversion failed: ...")]
    /\ UNCHANGED <<webapp_vars, batch>>

\* clean_markdown_content and the writing of the output file.
call_write ==
    /\ call.pc = "write"
    /\ \/ call' = [call EXCEPT
                      !.pc = "finally",
                      !.result = [success |-> TRUE,
                                  message |-> "Successfully converted to: ..."]]
       \/ call' = [call EXCEPT
                      !.pc = "finally",
                      !.result = Failure("Error during conversion: ...")]
    /\ UNCHANGED <<webapp_vars, batch>>

\* finally: os.remove(temp_file) if it exists; a failure to remove is
\* ignored.  The function returns its result.
call_finally ==
    /\ call.pc = "finally"
    /\ \/ call' = [call EXCEPT !.pc = "returned", !.temp = FALSE,
                                !.remove_tried = TRUE]
       \/ call' = [call EXCEPT !.pc = "returned", !.remove_tried = TRUE]
    /\ UNCHANGED <<webapp_vars, batch>>

\* The call is over; the next call can begin.
call_end ==
    /\ call.pc \in {"returned", "raised"}
    /\ call' = NoCall
    /\ UNCHANGED <<webapp_vars, batch>>

CallNext ==
    \/ call_begin
    \/ call_copy
    \/ call_sleep
    \/ call_fallback
    \/ call_markitdown
    \/ call_write
    \/ call_finally
    \/ call_end

\* The runs of convert_file_to_markdown called on its own (command line).
CallSpec == Init /\ [][CallNext]_vars

-----------------------------------------------------------------------------
(* convert_to_markdown.py: batch_convert                                   *)

\* The lists of paths given to batch_convert: the empty list, and lists in
\* which a path can be named more than once.
BatchInputs ==
    UNION {[1 .. n -> {Str_a_pdf, Str_m_pdf}] : n \in 0 .. MaxBatch}

min(a, b) == IF a < b THEN a ELSE b

\* max_workers = min(cpu_count(), len(file_paths)); ProcessPoolExecutor
\* raises ValueError unless max_workers > 0; otherwise one future is
\* submitted for every entry of the list.
batch_start ==
    /\ batch.pc = "idle"
    /\ \E file_paths \in BatchInputs :
          LET max_workers == min(cpu_count, Len(file_paths))
          IN  IF max_workers <= 0
              THEN batch' = [NoBatch EXCEPT !.pc = "raised",
                                           !.file_paths = file_paths,
                                           !.max_workers = max_workers]
              ELSE batch' = [NoBatch EXCEPT !.pc = "collect",
                                           !.file_paths = file_paths,
                                           !.max_workers = max_workers,
                                           !.pending = 1 .. Len(file_paths)]
    /\ UNCHANGED <<webapp_vars, call>>

\* The entry of results for a future: its (success, message), or
\* (False, message) when future.result() raises.
BatchResult(outcome) ==
    IF outcome = "success"
    THEN [success |-> TRUE, message |-> "Successfully converted to: ..."]
    ELSE IF outcome = "failure"
    THEN Failure("conversion failed")
    ELSE Failure("Conversion failed: ...")

\* for future in as_completed(future_to_file): the futures complete in any
\* order; results[file_path] = ...
batch_collect ==
    /\ batch.pc = "collect"
    /\ \E k \in batch.pending, outcome \in ConvertOutcomes :
          batch' = [batch EXCEPT
                       !.pending = @ \ {k},
                       !.results = SetItem(@, batch.file_paths[k],
                                           BatchResult(outcome))]
    /\ UNCHANGED <<webapp_vars, call>>

\* return results
batch_return ==
    /\ batch.pc = "collect"
    /\ batch.pending = {}
    /\ batch' = [batch EXCEPT !.pc = "returned"]
    /\ UNCHANGED <<webapp_vars, call>>

\* The call is over; the next call can begin.
batch_end ==
    /\ batch.pc \in {"returned", "raised"}
    /\ batch' = NoBatch
    /\ UNCHANGED <<webapp_vars, call>>

BatchNext ==
    \/ batch_start
    \/ batch_collect
    \/ batch_return
    \/ batch_end

\* The runs of batch_convert.
BatchSpec == Init /\ [][BatchNext]_vars

-----------------------------------------------------------------------------

\* What a request thread does after /convert has resolved its paths, and in
\* /status and /clear.
RequestRest(t) ==
    \/ convert_lock(t)
    \/ convert_queued(t)
    \/ convert_submit(t)
    \/ convert_return(t)
    \/ status_lock(t)
    \/ status_return(t)
    \/ clear_lock(t)
    \/ clear_assign(t)

RequestStep(t) ==
    \/ convert_resolve(t)
    \/ RequestRest(t)

WorkerStep(w) ==
    \/ worker_get(w)
    \/ process_lock(w)
    \/ process_processing(w)
    \/ process_convert(w)
    \/ process_result_lock(w)
    \/ process_result(w)
    \/ worker_idle(w)

Next ==
    \/ \E t \in Callers : RequestStep(t)
    \/ \E w \in ThreadIds : WorkerStep(w)

Spec == Init /\ [][Next]_vars

worker_takes_lock(w) == process_lock(w) \/ process_result_lock(w)

\* A thread inside a with conversion_lock block leaves it.
worker_leaves_lock(w) == process_processing(w) \/ process_result(w)

\* A request being handled runs to its end; no client has to send one.
request_continues(t) ==
    \/ convert_queued(t)
    \/ convert_submit(t)
    \/ convert_return(t)
    \/ status_return(t)
    \/ clear_assign(t)

LiveNext ==
    \/ \E t \in Callers : convert_resolve_of(t, LiveRequests)
    \/ \E t \in Callers : RequestRest(t)
    \/ \E w \in ThreadIds : WorkerStep(w)

\* Scheduling of the request threads: a request being handled goes on, and
\* a thread waiting for the lock gets it when the lock is released again and
\* again.
RequestFairness ==
    /\ \A t \in Callers : WF_vars(request_continues(t))
    /\ \A t \in Callers : SF_vars(convert_lock(t))

\* Scheduling of the workers: every worker that can run does run, and every
\* call of the conversion returns.
Fairness ==
    /\ RequestFairness
    /\ \A w \in ThreadIds : WF_vars(WorkerStep(w))
    /\ \A w \in ThreadIds : SF_vars(worker_takes_lock(w))

FairSpec == Init /\ [][LiveNext]_vars /\ Fairness

\* The runs in which a call of the conversion need not return: a worker is
\* only required to leave the lock once it holds it.
StuckSpec ==
    /\ Init /\ [][LiveNext]_vars
    /\ RequestFairness
    /\ \A w \in ThreadIds : WF_vars(worker_leaves_lock(w))

\* The requests that name a directory: d, which holds a file and a directory
\* whose names end in .pdf and a text file, and d/s.pdf, which holds one file.
DirRequests == { <<Str_d>>, <<Str_d_s_pdf>> }

DirNext ==
    \/ \E t \in Callers : convert_resolve_of(t, DirRequests)
    \/ \E t \in Callers : RequestRest(t)
    \/ \E w \in ThreadIds : WorkerStep(w)

\* The runs in which every /convert request names a directory.
DirSpec == Init /\ [][DirNext]_vars

MalformedNext ==
    \/ \E t \in Callers : convert_resolve_of(t, LiveRequests)
    \/ \E t \in Callers : convert_malformed(t)
    \/ \E t \in Callers : convert_error_return(t)
    \/ \E t \in Callers : RequestRest(t)
    \/ \E w \in ThreadIds : WorkerStep(w)

\* The runs in which clients also send malformed /convert requests.
MalformedSpec == Init /\ [][MalformedNext]_vars

\* The requests of the runs in which the page is followed: two batches of
\* one file each.
PollRequests ==
    { <<Str_star_pdf>>,
      <<(<<" ">> \o Str_d \o <<"/">> \o Str_star_pdf \o <<" ">>)>> }

\* The request threads that serve the page whose answers are followed; the
\* other threads serve clients that are not followed.
Pages == {1}

PollNext ==
    \/ \E t \in Callers : convert_resolve_of(t, PollRequests)
    \/ \E t \in Callers :
          \/ convert_lock(t)
          \/ convert_queued(t)
          \/ convert_submit(t)
          \/ convert_return(t)
          \/ status_lock(t)
          \/ clear_lock(t)
          \/ clear_assign(t)
    \/ \E t \in Pages : status_return_polled(t) \/ updateStatusDisplay(t)
    \/ \E t \in Callers \ Pages : status_return(t)
    \/ \E w \in ThreadIds : WorkerStep(w)

\* The runs in which the answers of /status are followed on the page.
PollSpec == Init /\ [][PollNext]_vars

-----------------------------------------------------------------------------
(* The claims.                                                             *)

\* C1: in every reachable state the number of jobs inside the conversion
\* call is at most the pool capacity N = MAX_WORKERS.
C1_AtMostN == 2 * Cardinality(Converting) <= MAX_WORKERS_times2

QueueIds == {work_queue[k].id : k \in 1 .. Len(work_queue)}

RunningIds == {threads[w].item.id : w \in DOMAIN threads} \ {0}

\* C2: no job is dropped: every work item handed to the pool is eventually
\* taken by a worker, and it is run exactly once: the items in the queue and
\* in the threads are all different, and as many runs have started as items
\* have left the queue.
C2_EveryJobStartsOnce ==
    /\ [](started + Len(work_queue) = submitted)
    /\ [](/\ Cardinality(QueueIds) = Len(work_queue)
          /\ Cardinality(RunningIds)
                = Cardinality({w \in DOMAIN threads : threads[w].item.id # 0})
          /\ QueueIds \cap RunningIds = {})
    /\ \A j \in 1 .. MaxJobs : (j \in QueueIds) ~> (j \in RunningIds)

\* C2, witness: two items were handed over, both were started, the second
\* one after waiting in the queue behind the first on the only thread.
C2_Witness ==
    /\ submitted = 2
    /\ started = 2
    /\ Len(threads) = 1
    /\ threads[1].item.id = 2

-----------------------------------------------------------------------------

Terminal == {"Completed", "Error"}

\* Every job handed to the pool has finished.
AllFinished ==
    /\ work_queue = <<>>
    /\ \A w \in DOMAIN threads : threads[w].pc \in {"idle", "done"}

\* C3: every execution of a job, whatever the outcome of the conversion,
\* writes exactly one final record (Completed or Error) for its path, and
\* once every job handed to the pool has finished no record is Processing.
C3_OneTerminalUpsert ==
    /\ [](\A w \in DOMAIN threads :
             threads[w].upserts = IF threads[w].pc = "done" THEN 1 ELSE 0)
    /\ [](AllFinished =>
             \A p \in DOMAIN conversion_status :
                 conversion_status[p].status # "Processing")
    /\ [][\A w \in DOMAIN threads :
             threads[w].pc = "result_cs" /\ threads'[w].pc # "result_cs"
             => /\ threads'[w].pc = "done"
                /\ threads[w].item.path \in DOMAIN conversion_status'
                /\ conversion_status'[threads[w].item.path].status \in Terminal
                /\ conversion_status'[threads[w].item.path].timestamp = now']_vars

\* C3, witness: both jobs of a run have finished, the last one with an
\* Error record, and a record of each of the two files is final.
C3_Witness ==
    /\ submitted = 2
    /\ AllFinished
    /\ \E w \in DOMAIN threads :
          /\ threads[w].pc = "done"
          /\ threads[w].upserts = 1
          /\ threads[w].item.path \in DOMAIN conversion_status
          /\ conversion_status[threads[w].item.path].status = "Error"
          /\ conversion_status[threads[w].item.path].timestamp = now
    /\ Cardinality(DOMAIN conversion_status) = 2

\* A change of state of one record that keeps the order Queued, Processing,
\* final; a rewrite with the same state is no move.
Forward(old, new) ==
    \/ old = new
    \/ old = "Queued" /\ new = "Processing"
    \/ old = "Processing" /\ new \in Terminal

\* A step that writes Queued for path p: a (re)submission of p.
Resubmits(p) ==
    /\ p \in DOMAIN conversion_status'
    /\ conversion_status'[p].status = "Queued"
    /\ conversion_status'[p].timestamp = now'
    /\ now' # now

\* C4: the state of a path's record only moves forward (Queued, Processing,
\* then Completed or Error) unless the step resubmits the path, also when a
\* path is listed twice in a batch or resubmitted while a job for it is
\* pending or running.
C4_Monotonic ==
    [][\A p \in (DOMAIN conversion_status) \cap (DOMAIN conversion_status') :
          \/ Resubmits(p)
          \/ Forward(conversion_status[p].status, conversion_status'[p].status)]_vars

\* /convert is about to return its answer.
AtReturn(t) == req[t].pc = "loop" /\ req[t].i > Len(req[t].files)

FilesOf(t) == {req[t].files[k] : k \in 1 .. Len(req[t].files)}

IsQueued(p) ==
    p \in DOMAIN status_response /\ status_response[p].status = "Queued"

\* C5: when /convert returns, a status read shows every resolved path of the
\* batch as Queued (stated here for the calls during which no clear() ran).
C5_AllQueuedAtReturn ==
    \A t \in Callers :
        AtReturn(t) /\ req[t].wiped = {} => \A p \in FilesOf(t) : IsQueued(p)

\* C5, amended: when /convert returns, a status read shows as Queued every
\* resolved path of the batch for which, since the call wrote its Queued
\* record, no worker has written a record and no clear() has run.
C5_QueuedUnlessTouched ==
    \A t \in Callers :
        AtReturn(t) =>
            \A p \in FilesOf(t) \ (req[t].touched \cup req[t].wiped) : IsQueued(p)

\* C5, witness: a batch of two files returns while the only worker is busy
\* with an earlier job; none of its records was touched.
C5_Witness ==
    \E t \in Callers :
        /\ AtReturn(t)
        /\ Len(req[t].files) = 2
        /\ req[t].touched = {}
        /\ req[t].wiped = {}
        /\ \A p \in FilesOf(t) : IsQueued(p)

AllItems ==
    {work_queue[k] : k \in 1 .. Len(work_queue)}
        \cup ({threads[w].item : w \in DOMAIN threads} \ {NoItem})

\* C6: the Queued record of a file is written before its job is handed to
\* the pool: at the hand-over the record is there (Queued, unless a worker
\* running an earlier job for the same path or a clear() has changed it
\* since), and every job pending or running has a record for its path unless
\* a clear() has removed it.
C6_QueuedBeforeSubmit ==
    /\ [](\A item \in AllItems :
             item.cleared \/ item.path \in DOMAIN conversion_status)
    /\ [][\A t \in Callers :
             submitted' # submitted /\ req'[t] # req[t]
             => LET p == req[t].files[req[t].i]
                IN  /\ req[t].pc = "submit"
                    /\ p \in req[t].touched \cup req[t].wiped \/ IsQueued(p)]_vars

\* C6, witness: a job waits in the queue, no worker has been started for it,
\* and its Queued record is in the dictionary.
C6_Witness ==
    /\ Len(work_queue) = 2
    /\ \A k \in 1 .. 2 :
          /\ ~work_queue[k].cleared
          /\ IsQueued(work_queue[k].path)
    /\ work_queue[1].path # work_queue[2].path

NoDuplicates(seq) == \A a, b \in 1 .. Len(seq) : seq[a] = seq[b] => a = b

\* C7: the files resolved by one /convert call contain no duplicates: a file
\* named several times in the request is resolved once, counted once and
\* gets one job.
C7_Deduplicated ==
    \A t \in Callers :
        AtReturn(t) =>
            /\ NoDuplicates(convert_response(t).files)
            /\ convert_response(t).queued = Cardinality(FilesOf(t))

\* C8: a status read after clear() with no write in between returns an empty
\* mapping; a job pending or running at the clear() still writes its later
\* records, so that its path is in the dictionary again with a new record.
C8_ClearThenFresh ==
    /\ [](cleared => status_response = EmptyDict)
    /\ [][\A w \in DOMAIN threads :
             /\ threads[w].item.cleared
             /\ threads[w].pc \in {"processing_cs", "result_cs"}
             /\ threads'[w].pc # threads[w].pc
             => LET p == threads[w].item.path
                IN  /\ p \in DOMAIN conversion_status'
                    /\ conversion_status'[p].timestamp = now'
                    /\ now' > now
                    /\ threads[w].pc = "processing_cs"
                       => conversion_status'[p].status = "Processing"
                    /\ threads[w].pc = "result_cs"
                       => conversion_status'[p].status \in Terminal]_vars

\* C8, witness: a job that was running at a clear() has written its final
\* record, the only record in the dictionary.
C8_Witness ==
    \E w \in DOMAIN threads :
        /\ threads[w].pc = "done"
        /\ threads[w].item.cleared
        /\ DOMAIN conversion_status = {threads[w].item.path}
        /\ conversion_status[threads[w].item.path].status \in Terminal
        /\ ~cleared

\* A work item without the history kept with it.
Plain(item) == [id |-> item.id, path |-> item.path]

\* C9: clear() changes only the status mapping: the pending queue and the
\* running jobs are as before, and every job pending or running at a clear()
\* still runs to its final record.
C9_ClearKeepsJobs ==
    /\ [][\A t \in Callers :
             req[t].pc = "clear_cs" /\ req'[t].pc # "clear_cs"
             => /\ conversion_status' = EmptyDict
                /\ Len(work_queue') = Len(work_queue)
                /\ \A k \in 1 .. Len(work_queue) :
                      Plain(work_queue'[k]) = Plain(work_queue[k])
                /\ DOMAIN threads' = DOMAIN threads
                /\ \A w \in DOMAIN threads :
                      /\ threads'[w].pc = threads[w].pc
                      /\ Plain(threads'[w].item) = Plain(threads[w].item)
                      /\ threads'[w].upserts = threads[w].upserts
                /\ UNCHANGED <<idle_semaphore, submitted, started, now,
                               cpu_count>>]_vars
    /\ \A j \in 1 .. MaxJobs :
          (\E item \in AllItems : item.id = j /\ item.cleared)
          ~> (\E w \in DOMAIN threads :
                 /\ threads[w].item.id = j
                 /\ threads[w].pc = "done"
                 /\ threads[w].upserts = 1)

\* C9, witness: a clear() ran while one job was running and another one was
\* waiting in the queue.
C9_Witness ==
    /\ Len(work_queue) = 1
    /\ work_queue[1].cleared
    /\ \E w \in DOMAIN threads :
          threads[w].pc = "converting" /\ threads[w].item.cleared
    /\ conversion_status = EmptyDict

\* C10: /convert never waits for a job to start or to finish: also when the
\* conversions of all workers never return, the call hands every resolved
\* file to the pool and returns; handing a file over is possible whatever
\* the queue holds.
C10_SubmitNeverWaits ==
    /\ [](\A t \in Callers : req[t].pc = "submit" => ENABLED convert_submit(t))
    /\ [](\A t \in Callers : AtReturn(t) => ENABLED convert_return(t))
    /\ \A t \in Callers : InConvert(t) ~> ~InConvert(t)

\* C10, witness: every worker is inside a conversion, a job waits in the
\* queue, and the /convert call that queued two files is returning.
C10_Witness ==
    /\ threads # <<>>
    /\ Converting = DOMAIN threads
    /\ work_queue # <<>>
    /\ \E t \in Callers : AtReturn(t) /\ Len(req[t].files) = 2

-----------------------------------------------------------------------------

\* The holder of the lock is inside a with conversion_lock block whose only
\* statement writes, copies or replaces the mapping.
HolderInBlock ==
    \/ \E t \in Callers :
          /\ conversion_lock = ReqThread(t)
          /\ req[t].pc \in {"queued_cs", "status_cs", "clear_cs"}
    \/ \E w \in DOMAIN threads :
          /\ conversion_lock = WorkerThread(w)
          /\ threads[w].pc \in {"processing_cs", "result_cs"}

\* C11: no worker holds conversion_lock while it is inside the conversion
\* call: whenever a job is converting, the lock is free or held by a thread
\* that is inside one of the short blocks that write, copy or replace the
\* mapping; a free lock can be taken by /status and /clear whatever the
\* workers do, and a held lock is released again also when no conversion
\* ever returns.
C11_LockNotHeldInConversion ==
    /\ [](\A w \in Converting : conversion_lock # WorkerThread(w))
    /\ [](conversion_lock # Free => HolderInBlock)
    /\ [](\A t \in Callers :
             conversion_lock = Free /\ req[t].pc = "idle"
             => ENABLED status_lock(t) /\ ENABLED clear_lock(t))
    /\ (conversion_lock # Free) ~> (conversion_lock = Free)

\* C11, witness: /status holds the lock while every worker of the pool is
\* inside a conversion.
C11_Witness ==
    /\ Converting # {}
    /\ Converting = DOMAIN threads
    /\ \E t \in Callers :
          conversion_lock = ReqThread(t) /\ req[t].pc = "status_cs"

-----------------------------------------------------------------------------

\* The state and message that one write of a record puts together.
UpsertPairs ==
    { <<"Queued", "Waiting to be processed">>,
      <<"Processing", "Converting to Markdown...">>,
      <<"Completed", "Successfully converted to: ...">>,
      <<"Error", "conversion failed">>,
      <<"Error", "Error: ...">> }

\* All fields of the record were put together by one write that has happened.
WholeRecord(rec) ==
    /\ <<rec.status, rec.message>> \in UpsertPairs
    /\ rec.timestamp \in 1 .. now

HoldsAnswer(t) == req[t].pc = "polled"

\* C12: the answer of /status is a copy of the mapping as it was while the
\* lock was held; every record in it has a state, message and timestamp put
\* together by one single write (every write stores a whole new record with
\* its own timestamp, and two records never share a write); and no later
\* write or clear() changes an answer that was given.
C12_SnapshotConsistent ==
    /\ [](\A t \in Callers : \A p \in DOMAIN req[t].response :
             WholeRecord(req[t].response[p]))
    /\ [](\A t \in Callers : \A p, q \in DOMAIN req[t].response :
             p # q => req[t].response[p].timestamp # req[t].response[q].timestamp)
    /\ [][\A t \in Callers :
             req[t].pc = "status_cs" /\ req'[t].pc = "polled"
             => /\ conversion_lock = ReqThread(t)
                /\ req'[t].response = conversion_status]_vars
    /\ [][\A t \in Callers :
             HoldsAnswer(t) /\ req'[t].pc = "polled"
             => req'[t].response = req[t].response]_vars
    /\ [][\A p \in DOMAIN conversion_status' :
             p \notin DOMAIN conversion_status
                 \/ conversion_status'[p] # conversion_status[p]
             => /\ now' = now + 1
                /\ conversion_status'[p].timestamp = now'
                /\ <<conversion_status'[p].status, conversion_status'[p].message>>
                      \in UpsertPairs]_vars

\* C12, witness: the page holds an answer in which a file is Queued while
\* the mapping has a final record for that file.
C12_Witness ==
    \E t \in Callers : \E p \in DOMAIN req[t].response :
        /\ HoldsAnswer(t)
        /\ req[t].response[p].status = "Queued"
        /\ p \in DOMAIN conversion_status
        /\ conversion_status[p].status \in Terminal

-----------------------------------------------------------------------------

\* The number of records of the answer that are in the given state.
CountOf(statusData, state) ==
    Cardinality({p \in DOMAIN statusData : statusData[p].status = state})

\* C18: for every answer of /status the page receives, the four numbers it
\* shows are the numbers of records that are Queued, Processing, Completed
\* and Error, so that they add up to the number of records; computing them
\* changes neither the answer nor the mapping of the server.
C18_AggregateCounts ==
    /\ [](\A t \in Callers :
             HoldsAnswer(t) =>
                LET stats == DisplayedStats(req[t].response)
                IN  /\ stats["queued"] = CountOf(req[t].response, "Queued")
                    /\ stats["processing"] = CountOf(req[t].response, "Processing")
                    /\ stats["completed"] = CountOf(req[t].response, "Completed")
                    /\ stats["error"] = CountOf(req[t].response, "Error")
                    /\ stats["queued"] + stats["processing"]
                          + stats["completed"] + stats["error"]
                       = Cardinality(DOMAIN req[t].response))
    /\ [][\A t \in Callers :
             HoldsAnswer(t) /\ ~HoldsAnswer(t)'
             => UNCHANGED <<conversion_status, conversion_lock, work_queue,
                            threads, now>>]_vars

\* C18, witness: the page holds an answer with one record in state
\* Processing and one in state Error.
C18_Witness ==
    \E t \in Callers :
        /\ HoldsAnswer(t)
        /\ Cardinality(DOMAIN req[t].response) = 2
        /\ DisplayedStats(req[t].response)
              = [k \in StatKeys |->
                    IF k \in {"processing", "error"} THEN 1 ELSE 0]

-----------------------------------------------------------------------------

\* The conversion of the work item the thread has just finished returned
\* (False, message) or raised.
Faulted(thread) == thread.result \in {"failure", "raise"}

\* C13: when the conversion of a job returns a failure or raises, the job
\* writes an Error record with a message for its path and changes no record
\* of another path; the worker thread goes on to wait for the next work item
\* and the pool keeps all its threads.
C13_FaultCaught ==
    /\ [][\A w \in DOMAIN threads :
             threads[w].pc = "result_cs" /\ threads'[w].pc # "result_cs"
             => LET p == threads[w].item.path
                IN  /\ threads'[w].pc = "done"
                    /\ Faulted(threads'[w])
                       => /\ p \in DOMAIN conversion_status'
                          /\ conversion_status'[p].status = "Error"
                          /\ conversion_status'[p].message
                                \in {"conversion failed", "Error: ..."}
                    /\ ~Faulted(threads'[w])
                       => /\ p \in DOMAIN conversion_status'
                          /\ conversion_status'[p].status = "Completed"
                    /\ \A q \in (DOMAIN conversion_status) \ {p} :
                          /\ q \in DOMAIN conversion_status'
                          /\ conversion_status'[q] = conversion_status[q]
                    /\ DOMAIN conversion_status'
                          = (DOMAIN conversion_status) \cup {p}]_vars
    /\ [](\A w \in DOMAIN threads :
             threads[w].pc = "done" => ENABLED worker_idle(w))
    /\ [][\A w \in DOMAIN threads :
             threads[w].pc = "done" /\ threads'[w].pc # "done"
             => /\ threads'[w] = IdleThread
                /\ idle_semaphore' = idle_semaphore + 1]_vars
    /\ [][/\ Len(threads') >= Len(threads)
          /\ \A w \in DOMAIN threads :
                threads'[w].pc \in {"idle", "start", "processing_cs",
                                    "converting", "converted", "result_cs",
                                    "done"}]_vars

\* C13, witness: the only worker of the pool, whose first job ended with an
\* Error record, is converting the file of the second job while the Error
\* record of the first file is in the mapping.
C13_Witness ==
    /\ Len(threads) = 1
    /\ started = 2
    /\ threads[1].pc = "converting"
    /\ \E q \in DOMAIN conversion_status :
          /\ q # threads[1].item.path
          /\ conversion_status[q].status = "Error"

-----------------------------------------------------------------------------

\* The entry is blank or names nothing that exists.
BlankOrMissing(raw) ==
    \/ strip(raw) = <<>>
    \/ /\ ~has_magic(strip(raw))
       /\ KindOf(DropTrailingSep(strip(raw))) = "none"

\* C14: /convert answers with success whatever files it was given; for an
\* empty list of paths, and for a list whose entries are all blank or
\* missing, the answer is success with queued = 0 and no files, and the call
\* writes no record and queues no job; the failure of a conversion changes
\* the status record only, never a /convert call or its answer.
C14_NoErrorForFiles ==
    /\ [](\A t \in Callers :
             AtReturn(t) =>
                /\ convert_response(t).success
                /\ convert_response(t).queued = Len(req[t].files)
                /\ convert_response(t).files = req[t].files)
    /\ [](\A t \in Callers :
             /\ InConvert(t)
             /\ \A k \in 1 .. Len(req[t].paths) : BlankOrMissing(req[t].paths[k])
             => /\ AtReturn(t)
                /\ convert_response(t)
                      = [success |-> TRUE, queued |-> 0, files |-> <<>>])
    /\ [][\A t \in Callers :
             /\ req'[t].pc # req[t].pc
             /\ \/ InConvert(t) /\ req[t].files = <<>>
                \/ InConvert(t)' /\ req'[t].files = <<>>
             => UNCHANGED <<conversion_status, work_queue, threads, submitted,
                            now>>]_vars
    /\ [][\A w \in DOMAIN threads :
             threads[w].pc = "result_cs" /\ threads'[w].pc # "result_cs"
             => \A t \in Callers :
                   /\ req'[t].pc = req[t].pc
                   /\ req'[t].files = req[t].files
                   /\ req'[t].i = req[t].i
                   /\ AtReturn(t) => convert_response(t)' = convert_response(t)]_vars

\* C14, witness: a /convert call given an empty list and one given a blank
\* and a missing entry are both about to answer, after an earlier job has
\* ended with an Error record.
C14_Witness ==
    /\ \E t \in Callers : AtReturn(t) /\ req[t].paths = <<>>
    /\ \E t \in Callers : AtReturn(t) /\ Len(req[t].paths) = 2
                              /\ req[t].files = <<>>
    /\ \E p \in DOMAIN conversion_status : conversion_status[p].status = "Error"

-----------------------------------------------------------------------------

\* max(1, floor(P / 2) - 1) for P = cpu_count.
FloorCapacity ==
    IF (cpu_count \div 2) - 1 > 1 THEN (cpu_count \div 2) - 1 ELSE 1

\* C15: the pool never runs more worker threads than
\* max(1, floor(cpu_count / 2) - 1), the capacity fixed at start-up (1 for
\* five cores).
C15_FloorCapacity == Len(threads) <= FloorCapacity

-----------------------------------------------------------------------------

EndsWith(s, suffix) ==
    Len(s) >= Len(suffix)
        /\ SubSeq(s, Len(s) - Len(suffix) + 1, Len(s)) = suffix

SupportedExtensions ==
    { <<".", "p", "d", "f">>, <<".", "d", "o", "c", "x">>,
      <<".", "p", "p", "t", "x">> }

\* The regular files directly inside the directory whose extension is
\* supported.
SupportedFilesIn(dir) ==
    {e.path : e \in {x \in {FSEntries[i] : i \in 1 .. Len(FSEntries)} :
                        /\ x.kind = "file"
                        /\ dirname(x.path) = DropTrailingSep(dir)
                        /\ \E ext \in SupportedExtensions :
                              EndsWith(x.path, ext)}}

\* C16: for a request entry that is an existing directory, the files
\* resolved are exactly the regular files directly inside it with extension
\* pdf, docx or pptx: no directory and no file of another kind.
C16_DirectoryFilesOnly ==
    \A t \in Callers :
        /\ InConvert(t)
        /\ Len(req[t].paths) = 1
        /\ ~has_magic(strip(req[t].paths[1]))
        /\ isdir(strip(req[t].paths[1]))
        => /\ FilesOf(t) = SupportedFilesIn(strip(req[t].paths[1]))
           /\ \A p \in FilesOf(t) : isfile(p)

-----------------------------------------------------------------------------

IsPrefix(s, full) == Len(s) <= Len(full) /\ s = SubSeq(full, 1, Len(s))

\* C17: convert_file_to_markdown calls the copy at most 3 times, waits 0.5
\* before the second and 1.0 before the third attempt (1 and 2 halves of a
\* second), tries the raw copy only after the third attempt failed because
\* the file was in use, ends the copying of a file in use with a failure
\* only when the raw copy failed too, and does not repeat a copy that failed
\* for another reason but returns a failure result.
C17_BoundedRetry ==
    /\ [](/\ call.attempts <= max_retries
          /\ IsPrefix(call.slept, <<1, 2>>)
          /\ call.pc = "copy" => Len(call.slept) = call.attempts)
    /\ [](call.fallback # ""
             => /\ call.attempts = 3
                /\ call.contended = 3
                /\ call.slept = <<1, 2>>)
    /\ [][/\ call.pc \in {"copy", "sleep", "fallback"}
          /\ call'.pc \notin {"copy", "sleep", "fallback", "convert"}
          /\ call'.contended = call'.attempts
          => call'.fallback = "failed"]_vars
    /\ [](call.fallback = "failed"
             => /\ call.pc \in {"finally", "returned"}
                /\ call.result =
                      Failure("File is in use and cannot be accessed: ..."))
    /\ [][/\ call.pc = "copy"
          /\ call'.attempts = call.attempts + 1
          /\ call'.contended = call.contended
          /\ call'.pc # "convert"
          => /\ call'.pc = "finally"
             /\ call'.result = Failure("Error during conversion: ...")]_vars
    /\ [][call.pc = "finally" /\ call'.pc # "finally"
          => /\ call'.pc = "returned"
             /\ call'.result = call.result
             /\ call'.attempts = call.attempts]_vars

\* C17, witness: a call has returned the failure of the raw copy after three
\* attempts that found the file in use and waits of 0.5 and 1.0.
C17_Witness ==
    /\ call.pc = "returned"
    /\ call.attempts = 3
    /\ call.contended = 3
    /\ call.slept = <<1, 2>>
    /\ call.fallback = "failed"
    /\ ~call.result.success

-----------------------------------------------------------------------------

\* C19: work items leave the queue in the order executor.submit queued them
\* (ids count the calls of executor.submit, of all /convert calls): the queue
\* holds the items not yet taken in the order of their ids, and the item a
\* worker takes is the oldest one, so that every item queued before it has
\* been taken already.
C19_FifoOrder ==
    /\ [](\A k \in 1 .. Len(work_queue) : work_queue[k].id = started + k)
    /\ [][started' # started
          => /\ started' = started + 1
             /\ work_queue # <<>>
             /\ \E w \in DOMAIN threads :
                   /\ threads[w].pc = "idle"
                   /\ threads'[w].pc = "start"
                   /\ threads'[w].item = Head(work_queue)
                   /\ \A k \in 1 .. Len(work_queue) :
                         work_queue[k].id >= threads'[w].item.id
                   /\ \A k \in 1 .. Len(work_queue') :
                         work_queue'[k].id > threads'[w].item.id]_vars

\* C19, witness: a worker has taken the first of the two jobs, which two
\* /convert calls queued for different files, and the second one waits.
C19_Witness ==
    /\ Len(work_queue) = 1
    /\ work_queue[1].id = 2
    /\ \E w \in DOMAIN threads :
          /\ threads[w].pc = "start"
          /\ threads[w].item.id = 1
          /\ threads[w].item.path # work_queue[1].path

-----------------------------------------------------------------------------

\* C20: every call of batch_convert without max_workers, also for the empty
\* list and for a list naming a path twice, returns (it does not raise) a
\* dictionary whose keys are exactly the paths of the list, each with a
\* (success, message) pair.
C20_BatchReturnsAllPaths ==
    /\ batch.pc # "raised"
    /\ batch.pc = "returned"
       => /\ DOMAIN batch.results
               = {batch.file_paths[k] : k \in 1 .. Len(batch.file_paths)}
          /\ \A p \in DOMAIN batch.results :
                /\ batch.results[p].success \in BOOLEAN
                /\ batch.results[p].message # ""

-----------------------------------------------------------------------------

ProcessingPaths ==
    {p \in DOMAIN conversion_status : conversion_status[p].status = "Processing"}

\* The thread runs a job for path p and is between the write of Processing
\* and the write of the final record.
RunsJobFor(w, p) ==
    /\ threads[w].item.path = p
    /\ threads[w].pc \in {"converting", "converted", "result_cs"}

\* C21: in every reachable state at most N = MAX_WORKERS records are
\* Processing, and every Processing record is the record of a path for which
\* a job is running its conversion.
C21_ProcessingBounded ==
    /\ 2 * Cardinality(ProcessingPaths) <= MAX_WORKERS_times2
    /\ \A p \in ProcessingPaths : \E w \in DOMAIN threads : RunsJobFor(w, p)

-----------------------------------------------------------------------------

\* C22: /convert resolves the whole request before it writes a record or
\* queues a job: during the submit loop the list of files is the resolution
\* of all paths of the request and does not change; and a call that answers
\* a malformed request with an error changes neither the mapping nor the
\* queue nor the pool, from its start to its answer.
C22_MalformedAllOrNothing ==
    /\ [](\A t \in Callers :
             InConvert(t) =>
                \E order \in ScanOrders :
                    req[t].files = Resolve(order, req[t].paths))
    /\ [][\A t \in Callers :
             InConvert(t) /\ InConvert(t)'
             => req'[t].files = req[t].files /\ req'[t].paths = req[t].paths]_vars
    /\ [][\A t \in Callers :
             req[t].pc = "idle" /\ req'[t].pc = "error"
             => UNCHANGED <<conversion_status, conversion_lock, work_queue,
                            idle_semaphore, threads, submitted, started,
                            now>>]_vars
    /\ [][\A t \in Callers :
             req[t].pc = "error" /\ req'[t].pc # "error"
             => /\ req'[t] = IdleReq
                /\ "error" \in DOMAIN convert_error_response
                /\ UNCHANGED <<conversion_status, conversion_lock, work_queue,
                               idle_semaphore, threads, submitted, started,
                               now>>]_vars
    /\ [](\A t \in Callers :
             req[t].pc = "error" => ENABLED convert_error_return(t))

\* C22, witness: /convert is about to answer with an error a request whose
\* first entry names an existing file and whose second entry is a number,
\* while a job is queued and the mapping has a record.
C22_Witness ==
    \E t \in Callers :
        /\ req[t].pc = "error"
        /\ req[t].paths = <<Str_a_pdf>>
        /\ work_queue # <<>>
        /\ conversion_status # EmptyDict
        /\ Str_a_pdf \notin DOMAIN conversion_status

-----------------------------------------------------------------------------

\* The call has created its temporary file: it is past mkstemp.
PastMkstemp ==
    call.pc \in {"copy", "sleep", "fallback", "convert", "write", "finally"}

\* C23: once convert_file_to_markdown has created its temporary file, it
\* leaves only through the finally clause, where the removal of the file is
\* attempted, and it returns a (success, message) pair: it does not raise,
\* whether the conversion succeeded, the raw copy failed, the conversion
\* failed or another error was caught.
C23_TempRemovedAndReturns ==
    /\ [][PastMkstemp /\ ~PastMkstemp'
          => /\ call.pc = "finally"
             /\ call'.pc = "returned"
             /\ call'.remove_tried
             /\ call'.result.success \in BOOLEAN
             /\ call'.result.message # ""
             /\ call'.result = call.result]_vars
    /\ [](call.pc = "raised" => ~call.temp /\ call.attempts = 0)
    /\ [](call.pc = "finally" => call.temp /\ call.result.message # "")
    /\ [](call.pc = "returned" /\ KindOf(call.input_file) # "none"
             => call.remove_tried)
    /\ [][PastMkstemp /\ call'.pc = "finally" /\ call.pc # "finally"
          => call'.result.success = (call.pc = "write" /\ call'.result.success)]_vars

\* C23, witness: a call whose first copy attempt failed with an error other
\* than contention has returned a failure pair, and its temporary file has
\* been removed.
C23_Witness ==
    /\ call.pc = "returned"
    /\ call.attempts = 1
    /\ call.contended = 0
    /\ ~call.result.success
    /\ call.result.message = "Error during conversion: ..."
    /\ call.remove_tried
    /\ ~call.temp

====
